---------------------------- MODULE Spec2Model ----------------------------
(***************************************************************************)
(* embedded-temu: the terminal state machine of src/src/console.rs         *)
(* (ConsoleInner, the Handler implementation, and Console's draw and       *)
(* pop_report) over the cell grid of src/src/text_buffer.rs and the Cell   *)
(* of src/src/cell.rs.                                                     *)
(*                                                                         *)
(* console.rs names its grid type CellBuffer; the grid under src/ is       *)
(* TextBuffer (text_buffer.rs), which has exactly the interface console.rs *)
(* uses (new, width, height, read, write, new_line, clear, pub buf), and   *)
(* is what the buffer operators below are translated from.                 *)
(*                                                                         *)
(* Integers: usize arithmetic.  A subtraction that would go below zero     *)
(* panics in a build with overflow checks and wraps in one without; both   *)
(* outcomes are modelled.  Additions of an argument to a coordinate cannot *)
(* overflow for the arguments enumerated here (all <= MaxArg).             *)
(***************************************************************************)
EXTENDS Integers, Sequences, FiniteSets, TLC

(***************************************************************************)
(* Bounds of the exploration.                                              *)
(***************************************************************************)
MaxWidth == 3
MaxHeight == 2
MaxArg == 3
MaxSteps == 3
MaxTypeSteps == 5
MaxDrawSteps == 4
MaxPenSteps == 5
MaxCursorSteps == 4
MaxReportSteps == 2
MaxBufferSteps == 3
MaxZeroSteps == 3
MaxScrollSteps == 4
MaxBriefSteps == 2
MaxClearSteps == 3
MaxRedrawSteps == 3
MaxTabSteps == 3
MaxEraseSteps == 3
MaxAttrSteps == 4
MaxBackendSteps == 3
MaxContent == 2
Bytes == 0..255
MaxQueueSteps == 7
WideWidth == 12
TallHeight == 4

Widths == 1..MaxWidth
Heights == 1..MaxHeight
Args == 0..MaxArg

min(a, b) == IF a < b THEN a ELSE b
saturating_sub(a, b) == IF a < b THEN 0 ELSE a - b

(***************************************************************************)
(* cell.rs: Cell, Flags, Default, just_bg.  Flags is a bit set, modelled   *)
(* as the set of the names of the bits that are set.                       *)
(***************************************************************************)
Flags == {"INVERSE", "BOLD", "ITALIC", "UNDERLINE", "DIM", "HIDDEN", "STRIKEOUT"}
Colors == {"Black", "Red", "Blue", "BrightWhite"}
Chars == {"a", "b"}

(* #[derive(PartialEq)] on Cell: equality of every field, dirty included. *)
cell_eq(a, b) ==
    a.c = b.c /\ a.fg = b.fg /\ a.bg = b.bg /\ a.flags = b.flags /\ a.dirty = b.dirty

DefaultCell == [c |-> " ", fg |-> "BrightWhite", bg |-> "Black", flags |-> {}, dirty |-> TRUE]

just_bg(cell) == [DefaultCell EXCEPT !.bg = cell.bg]

(***************************************************************************)
(* style.rs: interpolate_8bit_values, in the u16 arithmetic of the source  *)
(* with the cast of the result to u8.  interpolate_peak is the largest     *)
(* value the arithmetic forms before any wrap.                             *)
(***************************************************************************)
u16(n) == n % 65536
u8(n) == n % 256

interpolate_peak(a, b, value) == (IF a > b THEN a - b ELSE b - a) * value + 127

(* Mutant of interpolate_8bit_values: b - a whichever is larger. *)
interpolate_8bit_values_unordered(a, b, value) ==
    u8(u16(a + u16(u16(u16(b - a) * value) + 127) \div 255))

interpolate_8bit_values(a, b, value) ==
    IF a > b
    THEN u8(u16(a - u16(u16((a - b) * value) + 127) \div 255))
    ELSE u8(u16(a + u16(u16((b - a) * value) + 127) \div 255))

(***************************************************************************)
(* text_buffer.rs: TextBuffer.  tb is the record of the struct's fields.   *)
(***************************************************************************)
buffer_new(w, h) ==
    [buf |-> [row \in 0..(h - 1) |-> [col \in 0..(w - 1) |-> DefaultCell]],
     row_offset |-> 0, width |-> w, height |-> h]

read(tb, row, col) ==
    IF row >= tb.height \/ col >= tb.width THEN DefaultCell ELSE tb.buf[row][col]

(* Mutant of write: an out-of-bounds position is clamped to the last row *)
(* and column instead of being discarded.                                *)
write_clamped(tb, row, col, cell) ==
    [tb EXCEPT !.buf[min(row, tb.height - 1)][min(col, tb.width - 1)] = cell]

write(tb, row, col, cell) ==
    IF row >= tb.height \/ col >= tb.width THEN tb
    ELSE [tb EXCEPT !.buf[row][col] = cell]

buffer_clear_line(tb, row, cell) ==
    [tb EXCEPT !.buf[row] = [col \in 0..(tb.width - 1) |-> cell]]

new_line(tb, cell) ==
    [buffer_clear_line(tb, tb.row_offset, cell) EXCEPT
        !.row_offset = (tb.row_offset + 1) % tb.height]

(* write applied to columns lo..hi-1 of one row, in increasing order. *)
RECURSIVE write_span(_, _, _, _, _)
write_span(tb, row, lo, hi, cell) ==
    IF lo >= hi THEN tb ELSE write_span(write(tb, row, lo, cell), row, lo + 1, hi, cell)

(* write applied to every column of rows lo..hi-1. *)
RECURSIVE write_rows(_, _, _, _)
write_rows(tb, lo, hi, cell) ==
    IF lo >= hi THEN tb
    ELSE write_rows(write_span(tb, lo, 0, tb.width, cell), lo + 1, hi, cell)

(* Mutant of buffer_clear: the row offset is left as it is. *)
buffer_clear_keeps_offset(tb, cell) == write_rows(tb, 0, tb.height, cell)

buffer_clear(tb, cell) ==
    write_rows([tb EXCEPT !.row_offset = 0], 0, tb.height, cell)

(***************************************************************************)
(* console.rs: ConsoleInner and its Handler implementation.  s is the      *)
(* record of the struct's fields; every handler is the function from the   *)
(* state before the call to the state after it.                            *)
(***************************************************************************)
Cursor(row, col) == [row |-> row, col |-> col]

console_new(w, h) ==
    [cursor |-> Cursor(0, 0), saved_cursor |-> Cursor(0, 0), temp |-> DefaultCell,
     buf |-> buffer_new(w, h), auto_wrap |-> TRUE, report |-> << >>]

goto(s, row, col) ==
    [s EXCEPT !.cursor = Cursor(min(row, s.buf.height), min(col, s.buf.width))]

goto_line(s, row) == goto(s, row, s.cursor.col)

goto_col(s, col) == goto(s, s.cursor.row, col)

move_up(s, rows) == goto(s, saturating_sub(s.cursor.row, rows), s.cursor.col)

(* move_down and move_down_and_cr compute height - 1, move_forward computes *)
(* width - 1, in usize: on a zero dimension the subtraction panics where   *)
(* overflow is checked and gives usize::MAX where it is not, and the min   *)
(* with usize::MAX is its other argument.                                  *)
move_down_underflows(s) == s.buf.height < 1
move_forward_underflows(s) == s.buf.width < 1

move_down(s, rows) ==
    goto(s, IF move_down_underflows(s) THEN s.cursor.row + rows
            ELSE min(s.cursor.row + rows, s.buf.height - 1), s.cursor.col)

move_forward(s, cols) ==
    [s EXCEPT !.cursor.col = IF move_forward_underflows(s) THEN s.cursor.col + cols
                             ELSE min(s.cursor.col + cols, s.buf.width - 1)]

move_backward(s, cols) ==
    [s EXCEPT !.cursor.col = saturating_sub(s.cursor.col, cols)]

move_down_and_cr(s, rows) ==
    goto(s, IF move_down_underflows(s) THEN s.cursor.row + rows
            ELSE min(s.cursor.row + rows, s.buf.height - 1), 0)

move_up_and_cr(s, rows) == goto(s, saturating_sub(s.cursor.row, rows), 0)

backspace(s) ==
    IF s.cursor.col > 0 THEN [s EXCEPT !.cursor.col = s.cursor.col - 1] ELSE s

carriage_return(s) == [s EXCEPT !.cursor.col = 0]

(* height - 1 underflows on a grid without rows.  When it wraps, it is    *)
(* usize::MAX, which every cursor row explored here is below.              *)
linefeed_underflows(s) == s.buf.height < 1

linefeed(s) ==
    LET s0 == [s EXCEPT !.cursor.col = 0] IN
    IF linefeed_underflows(s0) \/ s0.cursor.row < s0.buf.height - 1
    THEN [s0 EXCEPT !.cursor.row = s0.cursor.row + 1]
    ELSE [s0 EXCEPT !.buf = new_line(s0.buf, s0.temp)]

(* Mutant of input_write: the character is written with the default cell's *)
(* attributes instead of the pen's.                                        *)
input_write_unstyled(s, c) ==
    [s EXCEPT !.buf = write(s.buf, s.cursor.row, s.cursor.col, [DefaultCell EXCEPT !.c = c]),
              !.cursor.col = s.cursor.col + 1]

(* The tail of input: stamp the pen with c at the cursor, advance the column. *)
input_write(s, c) ==
    [s EXCEPT !.buf = write(s.buf, s.cursor.row, s.cursor.col, [s.temp EXCEPT !.c = c]),
              !.cursor.col = s.cursor.col + 1]

(* Mutant of input: the wrap test is > instead of >=. *)
input_wraps_late(s, c) ==
    IF s.cursor.col > s.buf.width
    THEN IF ~s.auto_wrap THEN s
         ELSE input_write(linefeed([s EXCEPT !.cursor.col = 0]), c)
    ELSE input_write(s, c)

(* Mutant of input: a full row wraps whatever auto_wrap says. *)
input_always_wraps(s, c) ==
    IF s.cursor.col >= s.buf.width
    THEN input_write(linefeed([s EXCEPT !.cursor.col = 0]), c)
    ELSE input_write(s, c)

(* input reaches linefeed's height - 1 when it wraps. *)
input_underflows(s) ==
    s.cursor.col >= s.buf.width /\ s.auto_wrap /\ linefeed_underflows(s)

input(s, c) ==
    IF s.cursor.col >= s.buf.width
    THEN IF ~s.auto_wrap THEN s
         ELSE input_write(linefeed([s EXCEPT !.cursor.col = 0]), c)
    ELSE input_write(s, c)

(* The inner loop of put_tab: write, advance, until the width or a multiple of 8. *)
RECURSIVE put_tab_stop(_, _)
put_tab_stop(s, bg) ==
    LET s1 == [s EXCEPT !.buf = write(s.buf, s.cursor.row, s.cursor.col, bg),
                        !.cursor.col = s.cursor.col + 1] IN
    IF s1.cursor.col = s1.buf.width \/ s1.cursor.col % 8 = 0 THEN s1
    ELSE put_tab_stop(s1, bg)

RECURSIVE put_tab_loop(_, _, _)
put_tab_loop(s, count, bg) ==
    IF s.cursor.col < s.buf.width /\ count > 0
    THEN put_tab_loop(put_tab_stop(s, bg), count - 1, bg)
    ELSE s

(* Mutant of put_tab: one tab stop whatever the count. *)
put_tab_once(s, count) ==
    IF s.cursor.col < s.buf.width /\ count > 0 THEN put_tab_stop(s, just_bg(s.temp)) ELSE s

put_tab(s, count) == put_tab_loop(s, count, just_bg(s.temp))

(* Mutant of scroll_up: the grid is scrolled by one line. *)
scroll_up_scrolls(s, rows) == [s EXCEPT !.buf = new_line(s.buf, just_bg(s.temp))]

scroll_up(s, rows) == s

scroll_down(s, rows) == s

(* Mutant of erase_chars: the count is ignored and the rest of the line erased. *)
erase_chars_to_end(s, count) ==
    [s EXCEPT !.buf = write_span(s.buf, s.cursor.row, s.cursor.col, s.buf.width, just_bg(s.temp))]

erase_chars(s, count) ==
    LET start == s.cursor.col
        end == min(start + count, s.buf.width) IN
    [s EXCEPT !.buf = write_span(s.buf, s.cursor.row, start, end, just_bg(s.temp))]

(* delete_chars computes columns - cursor.col - 1 in usize. *)
delete_chars_underflows(s) == s.buf.width < s.cursor.col + 1

(* The loop of delete_chars over i in lo..columns-1. *)
RECURSIVE delete_chars_loop(_, _, _, _, _)
delete_chars_loop(tb, row, lo, count, bg) ==
    IF lo >= tb.width THEN tb
    ELSE delete_chars_loop(
             write(write(tb, row, lo - count, read(tb, row, lo)), row, lo, bg),
             row, lo + 1, count, bg)

(* Without overflow checks the difference wraps to usize::MAX, which is at *)
(* least count, so the min leaves count as it is.                          *)
delete_chars(s, count) ==
    LET columns == s.buf.width
        n == IF delete_chars_underflows(s) THEN count
             ELSE min(count, columns - s.cursor.col - 1)
        end == s.cursor.col + n IN
    [s EXCEPT !.buf = delete_chars_loop(s.buf, s.cursor.row, end, n, just_bg(s.temp))]

save_cursor_position(s) == [s EXCEPT !.saved_cursor = s.cursor]

(* Mutant of restore_cursor_position: only the column is restored. *)
restore_cursor_position_col_only(s) == [s EXCEPT !.cursor.col = s.saved_cursor.col]

restore_cursor_position(s) == [s EXCEPT !.cursor = s.saved_cursor]

LineClearModes == {"Right", "Left", "All"}

(* Mutant of clear_line: Left stops before the cursor's column. *)
clear_line_left_exclusive(s, mode) ==
    LET bg == just_bg(s.temp)
        row == s.cursor.row IN
    CASE mode = "Right" ->
           [s EXCEPT !.buf = write_span(s.buf, row, s.cursor.col, s.buf.width, bg)]
      [] mode = "Left" ->
           [s EXCEPT !.buf = write_span(s.buf, row, 0, s.cursor.col, bg)]
      [] mode = "All" ->
           [s EXCEPT !.buf = write_span(s.buf, row, 0, s.buf.width, bg)]

clear_line(s, mode) ==
    LET bg == just_bg(s.temp)
        row == s.cursor.row IN
    CASE mode = "Right" ->
           [s EXCEPT !.buf = write_span(s.buf, row, s.cursor.col, s.buf.width, bg)]
      [] mode = "Left" ->
           [s EXCEPT !.buf = write_span(s.buf, row, 0, s.cursor.col + 1, bg)]
      [] mode = "All" ->
           [s EXCEPT !.buf = write_span(s.buf, row, 0, s.buf.width, bg)]

ClearModes == {"Above", "Below", "All", "Saved"}

(* Mutant of clear_screen: Above also erases the cell under the cursor. *)
clear_screen_above_inclusive(s, mode) ==
    LET bg == just_bg(s.temp)
        row == s.cursor.row
        col == s.cursor.col IN
    CASE mode = "Above" ->
           [s EXCEPT !.buf = write_span(write_rows(s.buf, 0, row, bg), row, 0, col + 1, bg)]
      [] mode = "Below" ->
           [s EXCEPT !.buf = write_rows(write_span(s.buf, row, col, s.buf.width, bg),
                                        row + 1, s.buf.height, bg)]
      [] mode = "All" ->
           [s EXCEPT !.buf = buffer_clear(s.buf, bg), !.cursor = Cursor(0, 0)]
      [] OTHER -> s

clear_screen(s, mode) ==
    LET bg == just_bg(s.temp)
        row == s.cursor.row
        col == s.cursor.col IN
    CASE mode = "Above" ->
           [s EXCEPT !.buf = write_span(write_rows(s.buf, 0, row, bg), row, 0, col, bg)]
      [] mode = "Below" ->
           [s EXCEPT !.buf = write_rows(write_span(s.buf, row, col, s.buf.width, bg),
                                        row + 1, s.buf.height, bg)]
      [] mode = "All" ->
           [s EXCEPT !.buf = buffer_clear(s.buf, bg), !.cursor = Cursor(0, 0)]
      [] OTHER -> s

(* Attr: the tag of the decoded attribute, and the colour of the two that   *)
(* carry one.  "BlinkSlow" stands for the attributes the match leaves to   *)
(* its default arm.                                                        *)
FlagAttrs == {"Reset", "Reverse", "CancelReverse", "Bold", "CancelBold", "Dim",
              "CancelBoldDim", "Italic", "CancelItalic", "Underline", "CancelUnderline",
              "Hidden", "CancelHidden", "Strike", "CancelStrike", "BlinkSlow"}
Attrs == [tag : {"Foreground", "Background"}, color : Colors]
           \cup [tag : FlagAttrs, color : {"Black"}]

Attr(tag) == [tag |-> tag, color |-> "Black"]
Foreground(color) == [tag |-> "Foreground", color |-> color]
Background(color) == [tag |-> "Background", color |-> color]

(* Mutant of terminal_attribute_reset: only the flags are cleared. *)
terminal_attribute_reset_flags_only(s) == [s EXCEPT !.temp.flags = {}]

(* The Attr::Reset arm. *)
terminal_attribute_reset(s) == [s EXCEPT !.temp = DefaultCell]

(* Mutant of terminal_attribute: CancelBold clears DIM as well. *)
terminal_attribute_cancel_bold_dims(s, attr) ==
    CASE attr.tag = "Foreground" -> [s EXCEPT !.temp.fg = attr.color]
      [] attr.tag = "Background" -> [s EXCEPT !.temp.bg = attr.color]
      [] attr.tag = "Reset" -> [s EXCEPT !.temp = DefaultCell]
      [] attr.tag = "Reverse" -> [s EXCEPT !.temp.flags = @ \cup {"INVERSE"}]
      [] attr.tag = "CancelReverse" -> [s EXCEPT !.temp.flags = @ \ {"INVERSE"}]
      [] attr.tag = "Bold" -> [s EXCEPT !.temp.flags = @ \cup {"BOLD"}]
      [] attr.tag = "CancelBold" -> [s EXCEPT !.temp.flags = @ \ {"BOLD", "DIM"}]
      [] attr.tag = "Dim" -> [s EXCEPT !.temp.flags = @ \cup {"DIM"}]
      [] attr.tag = "CancelBoldDim" -> [s EXCEPT !.temp.flags = @ \ {"BOLD", "DIM"}]
      [] attr.tag = "Italic" -> [s EXCEPT !.temp.flags = @ \cup {"ITALIC"}]
      [] attr.tag = "CancelItalic" -> [s EXCEPT !.temp.flags = @ \ {"ITALIC"}]
      [] attr.tag = "Underline" -> [s EXCEPT !.temp.flags = @ \cup {"UNDERLINE"}]
      [] attr.tag = "CancelUnderline" -> [s EXCEPT !.temp.flags = @ \ {"UNDERLINE"}]
      [] attr.tag = "Hidden" -> [s EXCEPT !.temp.flags = @ \cup {"HIDDEN"}]
      [] attr.tag = "CancelHidden" -> [s EXCEPT !.temp.flags = @ \ {"HIDDEN"}]
      [] attr.tag = "Strike" -> [s EXCEPT !.temp.flags = @ \cup {"STRIKEOUT"}]
      [] attr.tag = "CancelStrike" -> [s EXCEPT !.temp.flags = @ \ {"STRIKEOUT"}]
      [] OTHER -> s

terminal_attribute(s, attr) ==
    CASE attr.tag = "Foreground" -> [s EXCEPT !.temp.fg = attr.color]
      [] attr.tag = "Background" -> [s EXCEPT !.temp.bg = attr.color]
      [] attr.tag = "Reset" -> terminal_attribute_reset(s)
      [] attr.tag = "Reverse" -> [s EXCEPT !.temp.flags = @ \cup {"INVERSE"}]
      [] attr.tag = "CancelReverse" -> [s EXCEPT !.temp.flags = @ \ {"INVERSE"}]
      [] attr.tag = "Bold" -> [s EXCEPT !.temp.flags = @ \cup {"BOLD"}]
      [] attr.tag = "CancelBold" -> [s EXCEPT !.temp.flags = @ \ {"BOLD"}]
      [] attr.tag = "Dim" -> [s EXCEPT !.temp.flags = @ \cup {"DIM"}]
      [] attr.tag = "CancelBoldDim" -> [s EXCEPT !.temp.flags = @ \ {"BOLD", "DIM"}]
      [] attr.tag = "Italic" -> [s EXCEPT !.temp.flags = @ \cup {"ITALIC"}]
      [] attr.tag = "CancelItalic" -> [s EXCEPT !.temp.flags = @ \ {"ITALIC"}]
      [] attr.tag = "Underline" -> [s EXCEPT !.temp.flags = @ \cup {"UNDERLINE"}]
      [] attr.tag = "CancelUnderline" -> [s EXCEPT !.temp.flags = @ \ {"UNDERLINE"}]
      [] attr.tag = "Hidden" -> [s EXCEPT !.temp.flags = @ \cup {"HIDDEN"}]
      [] attr.tag = "CancelHidden" -> [s EXCEPT !.temp.flags = @ \ {"HIDDEN"}]
      [] attr.tag = "Strike" -> [s EXCEPT !.temp.flags = @ \cup {"STRIKEOUT"}]
      [] attr.tag = "CancelStrike" -> [s EXCEPT !.temp.flags = @ \ {"STRIKEOUT"}]
      [] OTHER -> s

Modes == {"LineWrap", "Insert"}

set_mode(s, mode) == IF mode = "LineWrap" THEN [s EXCEPT !.auto_wrap = TRUE] ELSE s

(* Mutant of unset_mode: every mode switches wrapping off. *)
unset_mode_any(s, mode) == [s EXCEPT !.auto_wrap = FALSE]

unset_mode(s, mode) == IF mode = "LineWrap" THEN [s EXCEPT !.auto_wrap = FALSE] ELSE s

set_scrolling_region(s, top, bottom) == s

(* format!("{}", n) of an unsigned number: its decimal digits as bytes. *)
RECURSIVE decimal(_)
decimal(n) == IF n < 10 THEN << 48 + n >> ELSE decimal(n \div 10) \o << 48 + (n % 10) >>

(* b"\x1b[0n" *)
StatusOk == << 27, 91, 48, 110 >>

(* Mutant of cursor_report: the column is reported before the row. *)
cursor_report_swapped(row, col) ==
    << 27, 91 >> \o decimal(col) \o << 59 >> \o decimal(row) \o << 82 >>

(* format!("\x1b[{};{}R", row, col) *)
cursor_report(row, col) == << 27, 91 >> \o decimal(row) \o << 59 >> \o decimal(col) \o << 82 >>

(* Mutant of device_status: every argument other than 5 is answered with *)
(* the cursor report.                                                    *)
device_status_answers_all(s, arg) ==
    IF arg = 5 THEN [s EXCEPT !.report = @ \o StatusOk]
    ELSE [s EXCEPT !.report = @ \o cursor_report(s.cursor.row + 1, s.cursor.col + 1)]

device_status(s, arg) ==
    CASE arg = 5 -> [s EXCEPT !.report = @ \o StatusOk]
      [] arg = 6 -> [s EXCEPT !.report = @ \o cursor_report(s.cursor.row + 1, s.cursor.col + 1)]
      [] OTHER -> s

(* Console::pop_report: the state after it, and the value it returns. *)
NoByte == -1
pop_report(s) == IF s.report = << >> THEN s ELSE [s EXCEPT !.report = Tail(@)]
(* Mutant of pop_report_value: the byte at the back of the queue is returned. *)
pop_report_value_back(s) ==
    IF s.report = << >> THEN NoByte ELSE s.report[Len(s.report)]

pop_report_value(s) == IF s.report = << >> THEN NoByte ELSE Head(s.report)

(***************************************************************************)
(* Console::draw.  The renderer (DrawCell::draw_cell on a DrawTarget) is   *)
(* the environment: it is given (cell, row, col), shows the cell at that   *)
(* position of the display, and may fail.  d holds the buffer, the display *)
(* and the renderer calls made so far; ok is how many renderer calls       *)
(* succeed before one fails.                                               *)
(***************************************************************************)
NotDrawn == [c |-> "", fg |-> "", bg |-> "", flags |-> {}]
rendered(cell) == [c |-> cell.c, fg |-> cell.fg, bg |-> cell.bg, flags |-> cell.flags]

display_new(w, h) == [row \in 0..(h - 1) |-> [col \in 0..(w - 1) |-> NotDrawn]]

RECURSIVE draw_loop(_, _, _)
draw_loop(d, i, ok) ==
    LET row == i \div d.buf.width
        col == i % d.buf.width IN
    IF i >= d.buf.width * d.buf.height THEN [d EXCEPT !.result = "Ok"]
    ELSE IF ~d.buf.buf[row][col].dirty THEN draw_loop(d, i + 1, ok)
    ELSE IF ok = 0
         THEN [d EXCEPT !.calls = Append(@, << row, col >>), !.result = "Err"]
         ELSE draw_loop([d EXCEPT !.display[row][col] = rendered(d.buf.buf[row][col]),
                                  !.calls = Append(@, << row, col >>),
                                  !.buf.buf[row][col].dirty = FALSE],
                        i + 1, ok - 1)

(* Mutant of draw: the dirty flag of a drawn cell is never cleared. *)
RECURSIVE draw_loop_keeps_dirty(_, _, _)
draw_loop_keeps_dirty(d, i, ok) ==
    LET row == i \div d.buf.width
        col == i % d.buf.width IN
    IF i >= d.buf.width * d.buf.height THEN [d EXCEPT !.result = "Ok"]
    ELSE IF ~d.buf.buf[row][col].dirty THEN draw_loop_keeps_dirty(d, i + 1, ok)
    ELSE IF ok = 0
         THEN [d EXCEPT !.calls = Append(@, << row, col >>), !.result = "Err"]
         ELSE draw_loop_keeps_dirty(
                  [d EXCEPT !.display[row][col] = rendered(d.buf.buf[row][col]),
                            !.calls = Append(@, << row, col >>)],
                  i + 1, ok - 1)

draw_keeps_dirty(tb, disp, ok) ==
    draw_loop_keeps_dirty(
        [buf |-> tb, display |-> disp, calls |-> << >>, result |-> "Ok"], 0, ok)

(* Mutant of draw: the dirty flag is cleared before the renderer is called, *)
(* so the cell whose rendering fails is left clean.                         *)
RECURSIVE draw_loop_clears_first(_, _, _)
draw_loop_clears_first(d, i, ok) ==
    LET row == i \div d.buf.width
        col == i % d.buf.width IN
    IF i >= d.buf.width * d.buf.height THEN [d EXCEPT !.result = "Ok"]
    ELSE IF ~d.buf.buf[row][col].dirty THEN draw_loop_clears_first(d, i + 1, ok)
    ELSE IF ok = 0
         THEN [d EXCEPT !.calls = Append(@, << row, col >>), !.result = "Err",
                        !.buf.buf[row][col].dirty = FALSE]
         ELSE draw_loop_clears_first(
                  [d EXCEPT !.display[row][col] = rendered(d.buf.buf[row][col]),
                            !.calls = Append(@, << row, col >>),
                            !.buf.buf[row][col].dirty = FALSE],
                  i + 1, ok - 1)

draw_clears_first(tb, disp, ok) ==
    draw_loop_clears_first(
        [buf |-> tb, display |-> disp, calls |-> << >>, result |-> "Ok"], 0, ok)

(* Mutant of draw: the renderer is called for every cell, dirty or not. *)
RECURSIVE draw_loop_every_cell(_, _, _)
draw_loop_every_cell(d, i, ok) ==
    LET row == i \div d.buf.width
        col == i % d.buf.width IN
    IF i >= d.buf.width * d.buf.height THEN [d EXCEPT !.result = "Ok"]
    ELSE IF ok = 0 /\ d.buf.buf[row][col].dirty
         THEN [d EXCEPT !.calls = Append(@, << row, col >>), !.result = "Err"]
         ELSE draw_loop_every_cell(
                  [d EXCEPT !.display[row][col] = rendered(d.buf.buf[row][col]),
                            !.calls = Append(@, << row, col >>),
                            !.buf.buf[row][col].dirty = FALSE],
                  i + 1, IF d.buf.buf[row][col].dirty THEN ok - 1 ELSE ok)

draw_every_cell(tb, disp, ok) ==
    draw_loop_every_cell(
        [buf |-> tb, display |-> disp, calls |-> << >>, result |-> "Ok"], 0, ok)

draw(tb, disp, ok) ==
    draw_loop([buf |-> tb, display |-> disp, calls |-> << >>, result |-> "Ok"], 0, ok)

(***************************************************************************)
(* ratatui_backend.rs: EmbeddedTemuBackend, with the two Console methods   *)
(* it alone calls.  A backend call gives the console after it and what it  *)
(* returned.  A content item is (x, y, cell): column, row, ratatui cell.   *)
(***************************************************************************)
set_cursor_position(s, row, col) ==
    [goto(s, row, col) EXCEPT !.temp = read(s.buf, row, col)]

set_cell(s, row, col, cell) == [s EXCEPT !.buf = write(s.buf, row, col, cell)]

ratatui_cell_to_cell(cell) ==
    [c |-> cell.symbol, fg |-> cell.fg, bg |-> cell.bg, flags |-> cell.modifier,
     dirty |-> TRUE]

(* The test both draw and set_cursor_position make of a position. *)
backend_out_of_bounds(s, x, y) == x > s.buf.width \/ y > s.buf.height

RECURSIVE backend_draw(_, _)
backend_draw(s, content) ==
    IF content = << >> THEN [console |-> s, result |-> "Ok"]
    ELSE LET item == Head(content) IN
         IF backend_out_of_bounds(s, item.x, item.y)
         THEN [console |-> s, result |-> "CursorPositionOutOfBounds"]
         ELSE backend_draw(
                  set_cursor_position(
                      set_cell(s, item.y, item.x, ratatui_cell_to_cell(item.cell)),
                      item.x, item.y),
                  Tail(content))

backend_get_cursor_position(s) == [x |-> s.cursor.col, y |-> s.cursor.row]

backend_set_cursor_position(s, x, y) ==
    IF backend_out_of_bounds(s, x, y)
    THEN [console |-> s, result |-> "CursorPositionOutOfBounds"]
    ELSE [console |-> set_cursor_position(s, x, y), result |-> "Ok"]

backend_clear(s) == [console |-> clear_screen(s, "All"), result |-> "Ok"]

(* The cells of the buffer that are dirty, as (row, col). *)
Positions(tb) == (0..(tb.height - 1)) \X (0..(tb.width - 1))
DirtyCells(tb) == {p \in Positions(tb) : tb.buf[p[1]][p[2]].dirty}

(***************************************************************************)
(* The state.  inner is Console's ConsoleInner; panicked says that a call  *)
(* has panicked (the program has aborted); display, calls and draw_result  *)
(* are the renderer's side of Console::draw: what each position of the     *)
(* display shows, the (row, col) of the renderer calls of the latest draw, *)
(* and what that draw returned; backend_result is what the latest call of  *)
(* the ratatui backend returned; blend holds two end values a and b and,   *)
(* once called, what interpolate_8bit_values(a, b, value) returned for     *)
(* each value.  run records the characters given to       *)
(* input by consecutive calls and the cursor before the first of them;     *)
(* last_save records whether save_cursor_position has been called and the  *)
(* cursor at its latest call, and whether restore_cursor_position has been *)
(* called since and the cursor before its latest call; steps is the number *)
(* of calls the exploration has left.  wire is the host's side of the      *)
(* report queue: the replies to the device_status calls made so far, in    *)
(* the order of the calls; the bytes pop_report has returned so far, in    *)
(* the order it returned them; and what its latest call returned.          *)
(***************************************************************************)
VARIABLES inner, panicked, display, calls, draw_result, backend_result, blend, run, last_save, wire, steps

vars == << inner, panicked, display, calls, draw_result, backend_result, blend, run, last_save, wire, steps >>

NoBlend == [a |-> 0, b |-> 0, result |-> << >>, called |-> FALSE]

NoWire == [requested |-> << >>, popped |-> << >>, last |-> "None"]

NoSave == [saved |-> FALSE, cursor |-> Cursor(0, 0),
           restored |-> FALSE, from |-> Cursor(0, 0)]

NoRun == [start |-> Cursor(0, 0), chars |-> << >>]

(* Console::new(w, h, style) with a display nothing has been drawn on. *)
Constructed(w, h) ==
    /\ inner = console_new(w, h)
    /\ display = display_new(w, h)
    /\ panicked = FALSE
    /\ calls = << >>
    /\ draw_result = "None"
    /\ backend_result = "None"
    /\ blend = NoBlend
    /\ run = NoRun
    /\ last_save = NoSave
    /\ wire = NoWire

Init ==
    /\ \E w \in Widths, h \in Heights : Constructed(w, h)
    /\ steps = MaxSteps

Live == ~panicked /\ steps > 0

(* A call of a handler other than input that returns: s is the state after it. *)
Returns(s) ==
    /\ inner' = s
    /\ run' = NoRun
    /\ steps' = steps - 1
    /\ UNCHANGED << blend, panicked, display, calls, draw_result, backend_result, last_save, wire >>

(* A call that panics. *)
Panics ==
    /\ panicked' = TRUE
    /\ steps' = steps - 1
    /\ UNCHANGED << blend, inner, display, calls, draw_result, backend_result, run, last_save, wire >>

AttrInputs == {Foreground("Red"), Background("Blue"), Attr("Bold"), Attr("Reset")}
StatusArgs == {5, 6, 0}

(* A call of input that returns. *)
InputReturns(c) ==
    /\ inner' = input(inner, c)
    /\ run' = IF run.chars = << >> THEN [start |-> inner.cursor, chars |-> << c >>]
              ELSE [run EXCEPT !.chars = Append(@, c)]
    /\ steps' = steps - 1
    /\ UNCHANGED << blend, panicked, display, calls, draw_result, backend_result, last_save, wire >>

InputOf(c) ==
    /\ Live
    /\ IF input_underflows(inner)
       THEN Panics \/ InputReturns(c)
       ELSE InputReturns(c)

Input == \E c \in Chars : InputOf(c)

Goto == Live /\ \E row \in Args, col \in Args : Returns(goto(inner, row, col))
GotoLine == Live /\ \E row \in Args : Returns(goto_line(inner, row))
GotoCol == Live /\ \E col \in Args : Returns(goto_col(inner, col))
MoveUpOf(n) == Live /\ Returns(move_up(inner, n))
MoveUp == \E n \in Args : MoveUpOf(n)
MoveDownOf(n) ==
    /\ Live
    /\ IF move_down_underflows(inner)
       THEN Panics \/ Returns(move_down(inner, n))
       ELSE Returns(move_down(inner, n))
MoveDown == \E n \in Args : MoveDownOf(n)
MoveForwardOf(n) ==
    /\ Live
    /\ IF move_forward_underflows(inner)
       THEN Panics \/ Returns(move_forward(inner, n))
       ELSE Returns(move_forward(inner, n))
MoveForward == \E n \in Args : MoveForwardOf(n)
MoveBackwardOf(n) == Live /\ Returns(move_backward(inner, n))
MoveBackward == \E n \in Args : MoveBackwardOf(n)
MoveDownAndCr ==
    /\ Live
    /\ \E n \in Args :
          IF move_down_underflows(inner)
          THEN Panics \/ Returns(move_down_and_cr(inner, n))
          ELSE Returns(move_down_and_cr(inner, n))
MoveUpAndCr == Live /\ \E n \in Args : Returns(move_up_and_cr(inner, n))
PutTabOf(n) == Live /\ Returns(put_tab(inner, n))
PutTab == \E n \in Args : PutTabOf(n)
Backspace == Live /\ Returns(backspace(inner))
CarriageReturn == Live /\ Returns(carriage_return(inner))
Linefeed ==
    /\ Live
    /\ IF linefeed_underflows(inner)
       THEN Panics \/ Returns(linefeed(inner))
       ELSE Returns(linefeed(inner))
ScrollUp == Live /\ \E n \in Args : Returns(scroll_up(inner, n))
ScrollDown == Live /\ \E n \in Args : Returns(scroll_down(inner, n))
EraseCharsOf(n) == Live /\ Returns(erase_chars(inner, n))
EraseChars == \E n \in Args : EraseCharsOf(n)

DeleteCharsOf(n) ==
    /\ Live
    /\ IF delete_chars_underflows(inner)
       THEN Panics \/ Returns(delete_chars(inner, n))
       ELSE Returns(delete_chars(inner, n))

DeleteChars == \E n \in Args : DeleteCharsOf(n)

SaveCursorPosition ==
    /\ Live
    /\ inner' = save_cursor_position(inner)
    /\ last_save' = [NoSave EXCEPT !.saved = TRUE, !.cursor = inner.cursor]
    /\ run' = NoRun
    /\ steps' = steps - 1
    /\ UNCHANGED << blend, panicked, display, calls, draw_result, backend_result, wire >>
RestoreCursorPosition ==
    /\ Live
    /\ inner' = restore_cursor_position(inner)
    /\ last_save' = [last_save EXCEPT !.restored = TRUE, !.from = inner.cursor]
    /\ run' = NoRun
    /\ steps' = steps - 1
    /\ UNCHANGED << blend, panicked, display, calls, draw_result, backend_result, wire >>
ClearLineOf(mode) == Live /\ Returns(clear_line(inner, mode))
ClearLine == \E mode \in LineClearModes : ClearLineOf(mode)
ClearScreenOf(mode) == Live /\ Returns(clear_screen(inner, mode))
ClearScreen == \E mode \in ClearModes : ClearScreenOf(mode)
TerminalAttributeOf(attr) == Live /\ Returns(terminal_attribute(inner, attr))
TerminalAttribute == \E attr \in AttrInputs : TerminalAttributeOf(attr)
SetModeOf(mode) == Live /\ Returns(set_mode(inner, mode))
SetMode == \E mode \in Modes : SetModeOf(mode)
UnsetModeOf(mode) == Live /\ Returns(unset_mode(inner, mode))
UnsetMode == \E mode \in Modes : UnsetModeOf(mode)
SetScrollingRegion ==
    Live /\ \E top \in Args, bottom \in Args : Returns(set_scrolling_region(inner, top, bottom))
(* The bytes a device_status(arg) call made in state s enqueues. *)
reply(s, arg) == device_status([s EXCEPT !.report = << >>], arg).report

DeviceStatusOf(arg) ==
    /\ Live
    /\ inner' = device_status(inner, arg)
    /\ wire' = [wire EXCEPT !.requested = @ \o reply(inner, arg)]
    /\ run' = NoRun
    /\ steps' = steps - 1
    /\ UNCHANGED << blend, panicked, display, calls, draw_result, backend_result, last_save >>

DeviceStatus == \E arg \in StatusArgs : DeviceStatusOf(arg)

PopReport ==
    /\ Live
    /\ inner' = pop_report(inner)
    /\ wire' = LET byte == pop_report_value(inner) IN
               IF byte = NoByte THEN [wire EXCEPT !.last = "None"]
               ELSE [wire EXCEPT !.popped = Append(@, byte), !.last = "Some"]
    /\ run' = NoRun
    /\ steps' = steps - 1
    /\ UNCHANGED << blend, panicked, display, calls, draw_result, backend_result, last_save >>

(* goto with arguments up to the size of the wide grid. *)
GotoFar ==
    Live /\ \E row \in 0..TallHeight, col \in 0..WideWidth : Returns(goto(inner, row, col))

(* A call of draw in which the renderer's first ok calls succeed. *)
DrawWith(ok) ==
    /\ Live
    /\ LET d == draw(inner.buf, display, ok) IN
        /\ inner' = [inner EXCEPT !.buf = d.buf]
        /\ display' = d.display
        /\ calls' = d.calls
        /\ draw_result' = d.result
    /\ run' = NoRun
    /\ steps' = steps - 1
    /\ UNCHANGED << blend, panicked, backend_result, last_save, wire >>

(* ok = the number of dirty cells: no renderer call fails. *)
Draw == \E ok \in 0..Cardinality(DirtyCells(inner.buf)) : DrawWith(ok)
DrawOk == DrawWith(Cardinality(DirtyCells(inner.buf)))

(* goto_col with arguments up to the width of the wide grid. *)
GotoColFar == Live /\ \E col \in 0..WideWidth : Returns(goto_col(inner, col))

(* The ratatui backend's calls.  Positions reach one past the clamp of the *)
(* largest grid; a content is a sequence of up to MaxContent items.        *)
RatatuiCells == {[symbol |-> "a", fg |-> "Red", bg |-> "Blue", modifier |-> {"BOLD"}]}
Items == [x : 0..(MaxWidth + 1), y : 0..(MaxHeight + 1), cell : RatatuiCells]
Contents == UNION {[1..n -> Items] : n \in 0..MaxContent}

BackendReturns(r) ==
    /\ inner' = r.console
    /\ backend_result' = r.result
    /\ run' = NoRun
    /\ steps' = steps - 1
    /\ UNCHANGED << blend, panicked, display, calls, draw_result, last_save, wire >>

BackendDrawOf(content) == Live /\ BackendReturns(backend_draw(inner, content))
BackendDraw == \E content \in Contents : BackendDrawOf(content)

BackendSetCursorPositionOf(x, y) ==
    Live /\ BackendReturns(backend_set_cursor_position(inner, x, y))
BackendSetCursorPosition ==
    \E x \in 0..(MaxWidth + 1), y \in 0..(MaxHeight + 1) : BackendSetCursorPositionOf(x, y)

BackendClear == Live /\ BackendReturns(backend_clear(inner))

(* flush: Console::draw, then the display's own flush, which may fail too. *)
BackendFlush ==
    /\ Live
    /\ \E ok \in 0..Cardinality(DirtyCells(inner.buf)), flushed \in BOOLEAN :
          LET d == draw(inner.buf, display, ok) IN
          /\ inner' = [inner EXCEPT !.buf = d.buf]
          /\ display' = d.display
          /\ calls' = d.calls
          /\ draw_result' = d.result
          /\ backend_result' = IF d.result = "Ok" /\ flushed THEN "Ok" ELSE "FlushError"
    /\ run' = NoRun
    /\ steps' = steps - 1
    /\ UNCHANGED << blend, panicked, last_save, wire >>

Next ==
    \/ Goto \/ GotoLine \/ GotoCol \/ Input
    \/ MoveUp \/ MoveDown \/ MoveForward \/ MoveBackward
    \/ MoveDownAndCr \/ MoveUpAndCr
    \/ PutTab \/ Backspace \/ CarriageReturn \/ Linefeed
    \/ ScrollUp \/ ScrollDown \/ EraseChars \/ DeleteChars
    \/ SaveCursorPosition \/ RestoreCursorPosition
    \/ ClearLine \/ ClearScreen \/ TerminalAttribute
    \/ SetMode \/ UnsetMode \/ SetScrollingRegion
    \/ DeviceStatus \/ PopReport \/ Draw

Spec == Init /\ [][Next]_vars

(* Typing: input with calls that place the cursor inside the grid, set the *)
(* pen and switch wrapping.                                                *)
InitType ==
    /\ \E w \in Widths, h \in Heights : Constructed(w, h)
    /\ steps = MaxTypeSteps

NextType ==
    \/ Input \/ MoveForward \/ MoveDown \/ CarriageReturn \/ Linefeed
    \/ TerminalAttribute \/ SetMode \/ UnsetMode

SpecType == InitType /\ [][NextType]_vars

(* Drawing: the calls that change cells, with draws whose renderer succeeds. *)
InitDraw ==
    /\ \E w \in Widths, h \in Heights : Constructed(w, h)
    /\ steps = MaxDrawSteps

NextDraw ==
    \/ Input \/ CarriageReturn \/ Linefeed
    \/ EraseChars \/ DeleteChars \/ ClearScreen
    \/ TerminalAttribute \/ DrawOk

SpecDraw == InitDraw /\ [][NextDraw]_vars

(* The pen: colour sets, flag sets and cancels, an attribute the match     *)
(* leaves to its default arm, and Reset, with input to stamp the pen into  *)
(* a cell.                                                                 *)
PenAttrs == {Foreground("Red"), Background("Blue"), Attr("Bold"), Attr("CancelBold"),
             Attr("Italic"), Attr("CancelBoldDim"), Attr("Reverse"), Attr("BlinkSlow"),
             Attr("Reset")}

TerminalAttributePen == \E attr \in PenAttrs : TerminalAttributeOf(attr)

InitPen ==
    /\ \E w \in Widths, h \in Heights : Constructed(w, h)
    /\ steps = MaxPenSteps

NextPen == TerminalAttributePen \/ Input

SpecPen == InitPen /\ [][NextPen]_vars

(* The cursor: goto with every argument, save and restore. *)
InitCursor ==
    /\ \E w \in Widths, h \in Heights : Constructed(w, h)
    /\ steps = MaxCursorSteps

NextCursor == Goto \/ SaveCursorPosition \/ RestoreCursorPosition

SpecCursor == InitCursor /\ [][NextCursor]_vars

(* Reports on a grid wide enough for two-digit columns. *)
InitReport ==
    /\ Constructed(WideWidth, TallHeight)
    /\ steps = MaxReportSteps

NextReport == GotoFar \/ DeviceStatus \/ PopReport

SpecReport == InitReport /\ [][NextReport]_vars

(* The report queue: requests and pops in every interleaving. *)
InitQueue ==
    /\ \E w \in Widths, h \in Heights : Constructed(w, h)
    /\ steps = MaxQueueSteps

NextQueue == DeviceStatus \/ PopReport

SpecQueue == InitQueue /\ [][NextQueue]_vars

(* The grid on its own: TextBuffer's write, new_line and clear called      *)
(* directly, with positions inside and outside the grid.                   *)
BufferCells ==
    {[c |-> "a", fg |-> "Red", bg |-> "Blue", flags |-> {"BOLD"}, dirty |-> TRUE],
     [c |-> "b", fg |-> "BrightWhite", bg |-> "Black", flags |-> {}, dirty |-> FALSE]}

BufferWriteOf(row, col, cell) ==
    Live /\ Returns([inner EXCEPT !.buf = write(inner.buf, row, col, cell)])

BufferWrite == \E row \in Args, col \in Args, cell \in BufferCells : BufferWriteOf(row, col, cell)

BufferNewLine ==
    Live /\ \E cell \in BufferCells : Returns([inner EXCEPT !.buf = new_line(inner.buf, cell)])

BufferClear ==
    Live /\ \E cell \in BufferCells : Returns([inner EXCEPT !.buf = buffer_clear(inner.buf, cell)])

InitBuffer ==
    /\ \E w \in Widths, h \in Heights : Constructed(w, h)
    /\ steps = MaxBufferSteps

NextBuffer == BufferWrite \/ BufferNewLine \/ BufferClear

SpecBuffer == InitBuffer /\ [][NextBuffer]_vars

(* Console::new takes any usize for width and height and returns a        *)
(* console: grids without columns or without rows are constructed too.     *)
(* The calls here are those whose arithmetic is defined on such a grid.    *)
InitZero ==
    /\ \E w \in 0..MaxWidth, h \in 0..MaxHeight : Constructed(w, h)
    /\ steps = MaxZeroSteps

NextZero ==
    \/ Input \/ Goto \/ CarriageReturn \/ Linefeed
    \/ MoveUp \/ MoveDown \/ MoveForward \/ MoveBackward
    \/ TerminalAttribute \/ DeviceStatus \/ PopReport

SpecZero == InitZero /\ [][NextZero]_vars

(* Scrolling requests among calls that each leave a mark on the state:    *)
(* typed characters, line feeds, saved and restored cursors, status        *)
(* requests.                                                               *)
InitScroll ==
    /\ \E w \in Widths, h \in Heights : Constructed(w, h)
    /\ steps = MaxScrollSteps

NextScroll ==
    \/ Input \/ Linefeed \/ SaveCursorPosition \/ RestoreCursorPosition
    \/ DeviceStatusOf(5) \/ DeviceStatusOf(6)
    \/ ScrollUp \/ ScrollDown \/ SetScrollingRegion

SpecScroll == InitScroll /\ [][NextScroll]_vars

(* Every call, from the constructed console, in runs short enough to be   *)
(* explored on larger grids as well.                                       *)
InitBrief ==
    /\ \E w \in Widths, h \in Heights : Constructed(w, h)
    /\ steps = MaxBriefSteps

SpecBrief == InitBrief /\ [][Next]_vars

(* Clearing the screen after calls that change what it must leave alone    *)
(* (pen, saved cursor, auto_wrap, report queue) and what it must reset     *)
(* (cells, dirty flags, cursor, row offset).                               *)
InitClear ==
    /\ \E w \in Widths, h \in Heights : Constructed(w, h)
    /\ steps = MaxClearSteps

NextClear ==
    \/ Input \/ MoveDown \/ Linefeed \/ TerminalAttribute
    \/ SaveCursorPosition \/ UnsetMode \/ DeviceStatusOf(5)
    \/ DrawOk \/ ClearScreen

SpecClear == InitClear /\ [][NextClear]_vars

(* Drawing with a renderer that may fail, among the calls that change     *)
(* cells.                                                                  *)
InitRedraw ==
    /\ \E w \in Widths, h \in Heights : Constructed(w, h)
    /\ steps = MaxRedrawSteps

NextRedraw ==
    \/ Input \/ CarriageReturn \/ Linefeed
    \/ EraseChars \/ ClearScreen \/ Draw

SpecRedraw == InitRedraw /\ [][NextRedraw]_vars

(* Tabs: put_tab on grids narrower and wider than a tab stop, with the     *)
(* calls that place the cursor, set the pen and fill cells.                *)
InitTab ==
    /\ \E w \in Widths \cup {WideWidth}, h \in Heights : Constructed(w, h)
    /\ steps = MaxTabSteps

NextTab == Goto \/ GotoColFar \/ Input \/ TerminalAttribute \/ PutTab

SpecTab == InitTab /\ [][NextTab]_vars

(* Erasing: erase_chars, clear_line and clear_screen with the calls that   *)
(* fill cells, set the pen and send the cursor anywhere goto lets it go.   *)
InitErase ==
    /\ \E w \in Widths, h \in Heights : Constructed(w, h)
    /\ steps = MaxEraseSteps

NextErase ==
    \/ Goto \/ Input \/ TerminalAttribute
    \/ EraseChars \/ ClearLine \/ ClearScreen

SpecErase == InitErase /\ [][NextErase]_vars

(* The pen: terminal_attribute with every attribute, and input stamping    *)
(* the pen into the cells of a one-row grid.                               *)
TerminalAttributeAny == \E attr \in Attrs : TerminalAttributeOf(attr)

InitAttr ==
    /\ \E w \in Widths : Constructed(w, 1)
    /\ steps = MaxAttrSteps

NextAttr == TerminalAttributeAny \/ Input

SpecAttr == InitAttr /\ [][NextAttr]_vars

(* The console behind the ratatui backend: only the backend's calls.       *)
InitBackend ==
    /\ \E w \in Widths, h \in Heights : Constructed(w, h)
    /\ steps = MaxBackendSteps

NextBackend == BackendDraw \/ BackendSetCursorPosition \/ BackendClear \/ BackendFlush

SpecBackend == InitBackend /\ [][NextBackend]_vars

(* interpolate_8bit_values on its own: the two end values are drawn at the *)
(* start, and the function is called between them with every value.       *)
Interpolate ==
    /\ ~blend.called
    /\ blend' = [blend EXCEPT
                    !.called = TRUE,
                    !.result = [value \in Bytes |->
                                   interpolate_8bit_values(blend.a, blend.b, value)]]
    /\ UNCHANGED << inner, panicked, display, calls, draw_result, backend_result,
                    run, last_save, wire, steps >>

InitInterpolate ==
    /\ inner = console_new(1, 1)
    /\ display = display_new(1, 1)
    /\ panicked = FALSE
    /\ calls = << >>
    /\ draw_result = "None"
    /\ backend_result = "None"
    /\ run = NoRun
    /\ last_save = NoSave
    /\ wire = NoWire
    /\ steps = 0
    /\ \E a \in Bytes, b \in Bytes : blend = [NoBlend EXCEPT !.a = a, !.b = b]

NextInterpolate == Interpolate

SpecInterpolate == InitInterpolate /\ [][NextInterpolate]_vars

(***************************************************************************)
(* The claims.                                                             *)
(***************************************************************************)
Width == inner.buf.width
Height == inner.buf.height
InGrid(cursor) == cursor.row < Height /\ cursor.col < Width

(* C1: no sequence of interpreter calls ever panics. *)
C1_NeverPanics == panicked = FALSE

(* C2: in every reachable state the live cursor satisfies row < height and *)
(* col < width.                                                            *)
C2_CursorInGrid == inner.cursor.row < Height /\ inner.cursor.col < Width

(* The reference scroll: discard the top line, shift every other line up   *)
(* by one, insert a line of the fill cell at the bottom.                   *)
RowShift(tb, fill) ==
    [tb EXCEPT !.buf = [row \in 0..(tb.height - 1) |->
                           IF row < tb.height - 1 THEN tb.buf[row + 1]
                           ELSE [col \in 0..(tb.width - 1) |-> fill]]]

(* A linefeed performed with the cursor on the last row. *)
ScrollingLinefeed == Linefeed /\ inner.cursor.row = Height - 1

(* C3: a linefeed on the last row leaves, at every (row, col), the cell    *)
(* content the reference scroll would leave there (so any number of them   *)
(* does).                                                                  *)
C3_ScrollIsRowShift ==
    [][ScrollingLinefeed =>
          \A p \in Positions(inner.buf) :
              rendered(read(inner'.buf, p[1], p[2]))
                  = rendered(read(RowShift(inner.buf, inner.temp), p[1], p[2]))]_vars

(* C4: a linefeed on the last row keeps the height, leaves the last row    *)
(* blank with the pen's background, and the former top row's content is    *)
(* gone: the top row now holds what the second row held.                   *)
C4_LinefeedOnLastRow ==
    [][ScrollingLinefeed =>
          /\ inner'.buf.height = Height
          /\ \A col \in 0..(Width - 1) :
                /\ read(inner'.buf, Height - 1, col).c = " "
                /\ read(inner'.buf, Height - 1, col).bg = inner.temp.bg
          /\ Height >= 2 =>
                \A col \in 0..(Width - 1) :
                    rendered(read(inner'.buf, 0, col)) = rendered(read(inner.buf, 1, col))]_vars

(* The cell at cursor position cur of s holds c with the pen's fg, bg and flags. *)
Stamped(s, cur, c, pen) ==
    LET cell == read(s.buf, cur.row, cur.col) IN
    cell.c = c /\ cell.fg = pen.fg /\ cell.bg = pen.bg /\ cell.flags = pen.flags

C6_AutoWrap ==
    (/\ inner.auto_wrap
     /\ Height >= 2
     /\ run.start = Cursor(0, 0)
     /\ Len(run.chars) = Width + 1)
    => /\ inner.cursor = Cursor(1, 1)
       /\ \A j \in 0..(Width - 1) : read(inner.buf, 0, j).c = run.chars[j + 1]
       /\ read(inner.buf, 1, 0).c = run.chars[Width + 1]

C6_Witness ==
    /\ inner.auto_wrap
    /\ Height >= 2 /\ Width >= 2
    /\ run.start = Cursor(0, 0)
    /\ Len(run.chars) = Width + 1
    /\ run.chars[Width] # run.chars[Width + 1]

C8_ChangedCellsAreDirty ==
    \A p \in Positions(inner.buf) :
        rendered(inner.buf.buf[p[1]][p[2]]) # display[p[1]][p[2]]
            => inner.buf.buf[p[1]][p[2]].dirty

(* C9: clear_screen(All) leaves every cell dirty (and the cursor at        *)
(* (0, 0)); a draw whose renderer succeeds leaves no cell dirty (and the   *)
(* cursor where it was); an input(c) made with no cell dirty and the       *)
(* cursor inside the grid, as it is after those two, leaves exactly one    *)
(* cell dirty, the one that received c.                                    *)
C9_DirtyTracking ==
    [][/\ ClearScreenOf("All") =>
              /\ DirtyCells(inner'.buf) = Positions(inner.buf)
              /\ inner'.cursor = Cursor(0, 0)
       /\ DrawOk =>
              /\ DirtyCells(inner'.buf) = {}
              /\ inner'.cursor = inner.cursor
       /\ \A c \in Chars :
              InputOf(c) /\ DirtyCells(inner.buf) = {} /\ InGrid(inner.cursor) =>
                  /\ DirtyCells(inner'.buf) = {<< inner.cursor.row, inner.cursor.col >>}
                  /\ read(inner'.buf, inner.cursor.row, inner.cursor.col).c = c]_vars

(* clear_screen(All) with a blue pen, a successful draw, one input. *)
C9_Witness ==
    /\ Height >= 2
    /\ steps = MaxDrawSteps - 4
    /\ inner.temp.bg = "Blue"
    /\ draw_result = "Ok"
    /\ Len(calls) = Cardinality(Positions(inner.buf))
    /\ run.start = Cursor(0, 0) /\ Len(run.chars) = 1
    /\ DirtyCells(inner.buf) = {<< 0, 0 >>}
    /\ \A p \in Positions(inner.buf) : display[p[1]][p[2]] = rendered(just_bg(inner.temp))

(* Row-major order of positions, and the dirty cells of a buffer in it. *)
Before(q, p) == q[1] < p[1] \/ (q[1] = p[1] /\ q[2] < p[2])
DirtySeq(tb) ==
    LET D == DirtyCells(tb) IN
    [k \in 1..Cardinality(D) |->
        CHOOSE p \in D : Cardinality({q \in D : Before(q, p)}) = k - 1]

(* C10: a draw whose renderer fails on a dirty cell returns the error      *)
(* after that one call; the cells drawn before it are clean, the failing   *)
(* cell and every dirty cell after it stay dirty, no other cell becomes    *)
(* dirty; a draw whose renderer succeeds calls it for exactly the dirty    *)
(* cells, in row-major order, and leaves no cell dirty.  No draw changes   *)
(* a cell's content.                                                       *)
C10_FailedDrawResumes ==
    [][\A ok \in 0..Cardinality(DirtyCells(inner.buf)) :
          DrawWith(ok) =>
              LET D == DirtySeq(inner.buf) IN
              /\ IF ok < Len(D)
                 THEN /\ draw_result' = "Err"
                      /\ calls' = SubSeq(D, 1, ok + 1)
                      /\ DirtyCells(inner'.buf) = {D[k] : k \in (ok + 1)..Len(D)}
                 ELSE /\ draw_result' = "Ok"
                      /\ calls' = D
                      /\ DirtyCells(inner'.buf) = {}
              /\ \A p \in Positions(inner.buf) :
                    rendered(inner'.buf.buf[p[1]][p[2]]) = rendered(inner.buf.buf[p[1]][p[2]])]_vars

(* Two calls after construction every cell is clean and the latest draw,   *)
(* which succeeded, was given only part of the grid: the draw before it    *)
(* failed part-way.                                                        *)
C10_Witness ==
    /\ steps = MaxRedrawSteps - 2
    /\ draw_result = "Ok"
    /\ DirtyCells(inner.buf) = {}
    /\ Len(calls) >= 1
    /\ Len(calls) < Cardinality(Positions(inner.buf))
    /\ \A p \in Positions(inner.buf) : display[p[1]][p[2]] # NotDrawn

(* C11: clear_screen(All) makes every cell a space in the default         *)
(* foreground with no flags, on the pen's background, dirty; puts the      *)
(* cursor at (0, 0) and the row offset at 0; and leaves the pen, the saved *)
(* cursor, auto_wrap, the report queue and the grid's size as they were.   *)
C11_ClearAll ==
    [][ClearScreenOf("All") =>
          /\ \A p \in Positions(inner.buf) :
                inner'.buf.buf[p[1]][p[2]] =
                    [c |-> " ", fg |-> "BrightWhite", bg |-> inner.temp.bg,
                     flags |-> {}, dirty |-> TRUE]
          /\ inner'.cursor = Cursor(0, 0)
          /\ inner'.buf.row_offset = 0
          /\ inner'.buf.width = Width /\ inner'.buf.height = Height
          /\ inner'.temp = inner.temp
          /\ inner'.saved_cursor = inner.saved_cursor
          /\ inner'.auto_wrap = inner.auto_wrap
          /\ inner'.report = inner.report]_vars

(* A bold pen on blue, then the clear: the grid is blank on blue, without  *)
(* the pen's flags.                                                        *)
C11_Witness ==
    /\ Width >= 2 /\ Height >= 2
    /\ steps = MaxClearSteps - 3
    /\ inner.temp.bg = "Blue" /\ inner.temp.flags = {"BOLD"}
    /\ inner.cursor = Cursor(0, 0)
    /\ inner.buf.row_offset = 0
    /\ \A p \in Positions(inner.buf) :
          inner.buf.buf[p[1]][p[2]] = [DefaultCell EXCEPT !.bg = "Blue"]

(* C12: whatever terminal_attribute calls came before it,                 *)
(* terminal_attribute(Reset) leaves the pen bright white on black with no  *)
(* flags, the default cell's fg, bg and flags.                             *)
C12_ResetPen ==
    [][TerminalAttributeOf(Attr("Reset")) =>
          /\ inner'.temp.fg = "BrightWhite"
          /\ inner'.temp.bg = "Black"
          /\ inner'.temp.flags = {}]_vars

(* The pen was made bold red on blue, stamped into cell (0, 0) by an       *)
(* input, and then reset.                                                  *)
C12_Witness ==
    /\ steps = MaxPenSteps - 5
    /\ inner.buf.buf[0][0].c \in Chars
    /\ inner.buf.buf[0][0].fg = "Red"
    /\ inner.buf.buf[0][0].bg = "Blue"
    /\ inner.buf.buf[0][0].flags = {"BOLD"}
    /\ inner.temp.fg = "BrightWhite"
    /\ inner.temp.bg = "Black"
    /\ inner.temp.flags = {}

(* C13: restore_cursor_position puts the cursor at exactly the (row, col)  *)
(* it had at the latest save_cursor_position, whatever goto calls were     *)
(* made in between, and at (0, 0) when no save was ever made.              *)
C13_SaveRestore ==
    [][RestoreCursorPosition =>
          inner'.cursor = IF last_save.saved THEN last_save.cursor ELSE Cursor(0, 0)]_vars

(* goto away from the origin, save, goto elsewhere, restore. *)
C13_Witness ==
    /\ steps = MaxCursorSteps - 4
    /\ last_save.saved
    /\ last_save.cursor.row = 1 /\ last_save.cursor.col = 1
    /\ last_save.restored
    /\ last_save.from = Cursor(0, 0)
    /\ inner.cursor = last_save.cursor
    /\ inner.saved_cursor = last_save.cursor

(* The ASCII digits of a number below 100. *)
Digits(n) == IF n < 10 THEN << 48 + n >> ELSE << 48 + (n \div 10), 48 + (n % 10) >>

(* C14: device_status(6) with the cursor at (r, c) appends to the report   *)
(* queue exactly ESC '[' digits(r+1) ';' digits(c+1) 'R' and changes       *)
(* nothing else; with the cursor at (3, 5) the bytes are ESC [ 4 ; 6 R.    *)
C14_CursorReport ==
    [][DeviceStatusOf(6) =>
          /\ inner'.report =
                inner.report \o << 27, 91 >> \o Digits(inner.cursor.row + 1) \o << 59 >>
                             \o Digits(inner.cursor.col + 1) \o << 82 >>
          /\ inner.cursor = Cursor(3, 5) =>
                inner'.report = inner.report \o << 27, 91, 52, 59, 54, 82 >>
          /\ inner' = [inner EXCEPT !.report = inner'.report]
          /\ UNCHANGED << panicked, display, calls, draw_result >>]_vars

(* The cursor was put at (3, 11) and reported as ESC [ 4 ; 1 2 R. *)
C14_Witness ==
    /\ inner.cursor = Cursor(3, 11)
    /\ inner.report = << 27, 91, 52, 59, 49, 50, 82 >>
    /\ wire.requested = inner.report

(* C15: the bytes pop_report has returned, followed by the bytes still     *)
(* queued, are the replies to the device_status calls in the order of the  *)
(* calls: replies come out whole, in request order, each byte once.  A     *)
(* pop_report on a non-empty queue returns one byte; on an empty queue it  *)
(* returns None and changes nothing.                                       *)
C15_Fifo ==
    [][/\ wire'.requested = wire'.popped \o inner'.report
       /\ PopReport /\ inner.report # << >> =>
              /\ wire'.last = "Some"
              /\ Len(wire'.popped) = Len(wire.popped) + 1
       /\ PopReport /\ inner.report = << >> =>
              /\ wire'.last = "None"
              /\ wire'.popped = wire.popped
              /\ inner' = inner
              /\ UNCHANGED << panicked, display, calls, draw_result >>]_vars

(* device_status(5) and device_status(6) at the origin; the first reply    *)
(* and the first byte of the second have been popped.                      *)
C15_Witness ==
    /\ steps = MaxQueueSteps - 7
    /\ wire.popped = << 27, 91, 48, 110, 27 >>
    /\ inner.report = << 91, 49, 59, 49, 82 >>
    /\ wire.last = "Some"

(* C16: the report queue changes only by device_status(5) appending        *)
(* ESC '[' '0' 'n', by device_status(6) appending to it, and by pop_report *)
(* removing its first byte; every other call, device_status with another   *)
(* argument, draw, clear_screen(All) and terminal_attribute(Reset) among   *)
(* them, leaves it as it was.                                              *)
C16_QueueFrame ==
    [][/\ DeviceStatusOf(5) => inner'.report = inner.report \o << 27, 91, 48, 110 >>
       /\ DeviceStatusOf(6) =>
              /\ Len(inner'.report) > Len(inner.report)
              /\ SubSeq(inner'.report, 1, Len(inner.report)) = inner.report
       /\ PopReport =>
              inner'.report = IF inner.report = << >> THEN << >> ELSE Tail(inner.report)
       /\ inner'.report # inner.report =>
              /\ DeviceStatusOf(5) \/ DeviceStatusOf(6) \/ PopReport
              /\ \A arg \in StatusArgs \ {5, 6} : ~DeviceStatusOf(arg)
              /\ ~Draw
              /\ ~ClearScreenOf("All")
              /\ ~TerminalAttributeOf(Attr("Reset"))]_vars

(* One device_status(5) and one pop_report have been made. *)
C16_Witness ==
    /\ steps = MaxBriefSteps - 2
    /\ wire.requested = << 27, 91, 48, 110 >>
    /\ wire.popped = << 27 >>
    /\ inner.report = << 91, 48, 110 >>

(* C17: for a position with row >= height or col >= width, read returns   *)
(* the default cell and write changes no cell and not the row offset; for  *)
(* a position inside the grid, read after write(row, col, x) returns x,    *)
(* and write changes no other cell.  Neither fails.                        *)
C17_OutOfBounds ==
    [][/\ \A row \in Args, col \in Args :
            row >= inner'.buf.height \/ col >= inner'.buf.width =>
                read(inner'.buf, row, col) =
                    [c |-> " ", fg |-> "BrightWhite", bg |-> "Black",
                     flags |-> {}, dirty |-> TRUE]
       /\ \A row \in Args, col \in Args, x \in BufferCells :
            BufferWriteOf(row, col, x) =>
                /\ panicked' = FALSE
                /\ IF row >= Height \/ col >= Width
                   THEN inner'.buf = inner.buf
                   ELSE /\ read(inner'.buf, row, col) = x
                        /\ inner'.buf.row_offset = inner.buf.row_offset
                        /\ \A p \in Positions(inner.buf) :
                              p # << row, col >> =>
                                  inner'.buf.buf[p[1]][p[2]] = inner.buf.buf[p[1]][p[2]]]_vars

(* One call has been made with a cell that is not the default cell and     *)
(* every cell is still the default cell: the call was a write outside the  *)
(* grid.                                                                   *)
C17_Witness ==
    /\ steps = MaxBufferSteps - 1
    /\ \A p \in Positions(inner.buf) : inner.buf.buf[p[1]][p[2]] = DefaultCell
    /\ inner.buf.row_offset = 0

(* C18: no console is constructed with width = 0 or height = 0. *)
C18_NoZeroDimension == Width >= 1 /\ Height >= 1

(* C19: set_scrolling_region, scroll_up and scroll_down, with any          *)
(* arguments, leave the cursor, the saved cursor, the pen, every cell with *)
(* its dirty flag, the row offset, auto_wrap and the report queue as they  *)
(* were, and draw nothing.                                                 *)
C19_ScrollNoOps ==
    [][ScrollUp \/ ScrollDown \/ SetScrollingRegion =>
          /\ inner'.cursor = inner.cursor
          /\ inner'.saved_cursor = inner.saved_cursor
          /\ inner'.temp = inner.temp
          /\ inner'.buf = inner.buf
          /\ inner'.auto_wrap = inner.auto_wrap
          /\ inner'.report = inner.report
          /\ UNCHANGED << panicked, display, calls, draw_result >>]_vars

(* One character typed at the origin, one device_status(5) and one more    *)
(* call that left no mark: a scrolling request.                            *)
C19_Witness ==
    /\ Width >= 2 /\ Height >= 2
    /\ steps = MaxScrollSteps - 3
    /\ inner.buf.buf[0][0].c \in Chars
    /\ inner.cursor = Cursor(0, 1)
    /\ inner.report = << 27, 91, 48, 110 >>
    /\ run = NoRun
    /\ last_save = NoSave

(* C20: set_mode(m) and unset_mode(m) leave the cursor, the saved cursor,  *)
(* the pen, the buffer and the report queue as they were; for the          *)
(* line-wrap mode set_mode makes auto_wrap true and unset_mode makes it    *)
(* false; for every other mode auto_wrap stays as it was.                  *)
C20_ModeFrame ==
    [][\A m \in Modes :
          /\ SetModeOf(m) \/ UnsetModeOf(m) =>
                /\ inner'.cursor = inner.cursor
                /\ inner'.saved_cursor = inner.saved_cursor
                /\ inner'.temp = inner.temp
                /\ inner'.buf = inner.buf
                /\ inner'.report = inner.report
                /\ UNCHANGED << panicked, display, calls, draw_result >>
          /\ SetModeOf(m) =>
                inner'.auto_wrap = IF m = "LineWrap" THEN TRUE ELSE inner.auto_wrap
          /\ UnsetModeOf(m) =>
                inner'.auto_wrap = IF m = "LineWrap" THEN FALSE ELSE inner.auto_wrap]_vars

(* Wrapping has been switched off, which only unset_mode(LineWrap) does,   *)
(* on a console with a queued status reply.                                *)
C20_Witness ==
    /\ inner.auto_wrap = FALSE
    /\ inner.report # << >>
    /\ steps = MaxBriefSteps - 2

(* The cell pen.just_bg() of the state before a step, field by field. *)
PenBackground ==
    [c |-> " ", fg |-> "BrightWhite", bg |-> inner.temp.bg, flags |-> {}, dirty |-> TRUE]

(* C21: when linefeed scrolls, every cell of the row it clears (the row    *)
(* the row offset designates) is the pen's background-only cell: the pen's *)
(* bg, the default fg, no flags.                                           *)
C21_ScrollFillIsJustBg ==
    [][ScrollingLinefeed =>
          \A col \in 0..(Width - 1) :
              inner'.buf.buf[inner.buf.row_offset][col] = PenBackground]_vars

(* C22: with auto_wrap on, input(c) stores c in a cell inside the grid:    *)
(* the cell left of the cursor after the call.                             *)
C22_NoCharacterLost ==
    [][\A c \in Chars :
          InputOf(c) /\ inner.auto_wrap =>
              /\ inner'.cursor.row < Height
              /\ inner'.cursor.col >= 1 /\ inner'.cursor.col - 1 < Width
              /\ inner'.buf.buf[inner'.cursor.row][inner'.cursor.col - 1].c = c]_vars

(* C23: delete_chars(n) with the cursor at (row, col) inside the grid and  *)
(* k = min(n, width - col - 1): the cells left of col stay, the cell at    *)
(* column j in [col, width - k) becomes the cell that was at j + k, the    *)
(* columns [width - k, width) become the pen's background-only cell; the   *)
(* other rows and the cursor stay.  With k = 0 no cell changes.            *)
C23_DeleteShiftsLeft ==
    [][\A n \in Args :
          DeleteCharsOf(n) /\ InGrid(inner.cursor) =>
              LET row == inner.cursor.row
                  col == inner.cursor.col
                  k == min(n, Width - col - 1) IN
              /\ inner'.cursor = inner.cursor
              /\ \A p \in Positions(inner.buf) :
                    inner'.buf.buf[p[1]][p[2]] =
                        IF p[1] # row \/ p[2] < col THEN inner.buf.buf[p[1]][p[2]]
                        ELSE IF p[2] < Width - k THEN inner.buf.buf[row][p[2] + k]
                        ELSE PenBackground]_vars

(* C24: the cursor and the saved cursor never go past row = height and    *)
(* col = width.                                                            *)
C24_WeakCursorBound ==
    /\ inner.cursor.row <= Height /\ inner.cursor.col <= Width
    /\ inner.saved_cursor.row <= Height /\ inner.saved_cursor.col <= Width


(* C25: the buffer's scroll step clears the row at row_offset and advances *)
(* the offset modulo height, so that 0 <= row_offset < height in every     *)
(* reachable state.  The range of the offset is the part stated here: it   *)
(* is what the wipe order of k consecutive scrolls and the return of the   *)
(* offset after height scrolls rest on.                                    *)
C25_OffsetInRange == 0 <= inner.buf.row_offset /\ inner.buf.row_offset < Height


(* C26: a draw whose renderer succeeds calls it exactly once for each cell *)
(* that is dirty when the draw starts, with that cell's own (row, col), in *)
(* row-major order, and never for a clean cell: the dirty positions show   *)
(* their cells and no other position of the display changes.  After it no  *)
(* cell is dirty and every cell's content is as before, so the draw that   *)
(* follows it at once makes no renderer call, even with a renderer that    *)
(* would fail on its first call.                                           *)
C26_DrawOncePerDirtyCell ==
    [][DrawOk =>
          LET D == DirtyCells(inner.buf)
              again == draw(inner'.buf, display', 0) IN
          /\ draw_result' = "Ok"
          /\ Len(calls') = Cardinality(D)
          /\ {calls'[k] : k \in 1..Len(calls')} = D
          /\ \A j \in 1..Len(calls'), k \in 1..Len(calls') :
                j < k => Before(calls'[j], calls'[k])
          /\ \A p \in Positions(inner.buf) :
                /\ display'[p[1]][p[2]] =
                      IF p \in D THEN rendered(inner.buf.buf[p[1]][p[2]])
                      ELSE display[p[1]][p[2]]
                /\ inner'.buf.buf[p[1]][p[2]] =
                      [inner.buf.buf[p[1]][p[2]] EXCEPT !.dirty = FALSE]
          /\ inner'.buf.row_offset = inner.buf.row_offset
          /\ again.calls = << >> /\ again.result = "Ok"
          /\ again.display = display' /\ again.buf = inner'.buf]_vars

(* A successful draw of the whole grid, one cell changed, and a successful *)
(* draw that was given that cell alone although the grid has more cells.   *)
C26_Witness ==
    /\ steps = MaxDrawSteps - 3
    /\ draw_result = "Ok"
    /\ calls = << << 0, 0 >> >>
    /\ Cardinality(Positions(inner.buf)) >= 2
    /\ DirtyCells(inner.buf) = {}
    /\ display[0][0] = rendered(inner.buf.buf[0][0])
    /\ display[0][0].c \in Chars
    /\ \A p \in Positions(inner.buf) : display[p[1]][p[2]] # NotDrawn


(* C27: put_tab(count) with the cursor left of the width and count >= 1    *)
(* leaves cursor.col at min(width, 8 * (floor(col / 8) + count)) and sets  *)
(* exactly the cells of the cursor row in [old col, new col) to the pen's  *)
(* background cell; with cursor.col >= width or count = 0 nothing changes. *)
(* Every other cell, cursor.row and the rest of the console are unchanged. *)
C27_TabStops ==
    [][\A n \in Args :
          PutTabOf(n) =>
              LET row == inner.cursor.row
                  col == inner.cursor.col
                  new == IF col < Width /\ n > 0
                         THEN min(Width, 8 * ((col \div 8) + n)) ELSE col IN
              /\ inner' = [inner EXCEPT !.cursor.col = new, !.buf = inner'.buf]
              /\ inner'.buf.row_offset = inner.buf.row_offset
              /\ \A p \in Positions(inner.buf) :
                    inner'.buf.buf[p[1]][p[2]] =
                        IF p[1] = row /\ col <= p[2] /\ p[2] < new
                        THEN PenBackground ELSE inner.buf.buf[p[1]][p[2]]]_vars

(* A blue pen, the cursor sent to a column between two tab stops of a grid *)
(* wider than a tab stop, and put_tab: the cells from that column to the   *)
(* stop at column 8 are blue spaces, the cells around them are not.        *)
C27_Witness ==
    /\ steps = MaxTabSteps - 3
    /\ Width > 8
    /\ inner.cursor.col = 8
    /\ InGrid(inner.cursor)
    /\ inner.temp.bg = "Blue"
    /\ \E from \in 1..7 :
          \A col \in 0..(Width - 1) :
              (inner.buf.buf[inner.cursor.row][col] = PenBackground) <=> (from <= col /\ col < 8)


(* C28: erase_chars(n) sets exactly the cells of the cursor's row in the   *)
(* columns [col, min(col + n, width)) to the pen's background cell and     *)
(* leaves the cursor, every other cell, the pen and the queue unchanged,   *)
(* wherever the cursor is.                                                 *)
C28_EraseFrame ==
    [][\A n \in Args :
          EraseCharsOf(n) =>
              LET row == inner.cursor.row
                  col == inner.cursor.col
                  end == min(col + n, Width) IN
              /\ inner' = [inner EXCEPT !.buf = inner'.buf]
              /\ inner'.buf.row_offset = inner.buf.row_offset
              /\ \A p \in Positions(inner.buf) :
                    inner'.buf.buf[p[1]][p[2]] =
                        IF p[1] = row /\ col <= p[2] /\ p[2] < end
                        THEN PenBackground ELSE inner.buf.buf[p[1]][p[2]]]_vars

(* A blue pen, the cursor sent to column 1 of a row of three or more, and  *)
(* erase_chars(1): that one cell is a blue space, its neighbours are not.  *)
C28_Witness ==
    /\ steps = MaxEraseSteps - 3
    /\ Width >= 3
    /\ inner.temp.bg = "Blue"
    /\ InGrid(inner.cursor) /\ inner.cursor.col = 1
    /\ \A p \in Positions(inner.buf) :
          (inner.buf.buf[p[1]][p[2]] = PenBackground) <=> p = << inner.cursor.row, 1 >>

(* C29: clear_line(mode) sets exactly these columns of the cursor's row to *)
(* the pen's background cell: Right [col, width), Left [0, col] with the   *)
(* cursor's column included (as far as the row reaches), All [0, width).   *)
(* The cursor, the other rows and the rest of the console are unchanged.   *)
C29_ClearLineSpans ==
    [][\A mode \in LineClearModes :
          ClearLineOf(mode) =>
              LET row == inner.cursor.row
                  col == inner.cursor.col
                  lo == IF mode = "Right" THEN col ELSE 0
                  hi == IF mode = "Left" THEN min(col + 1, Width) ELSE Width IN
              /\ inner' = [inner EXCEPT !.buf = inner'.buf]
              /\ inner'.buf.row_offset = inner.buf.row_offset
              /\ \A p \in Positions(inner.buf) :
                    inner'.buf.buf[p[1]][p[2]] =
                        IF p[1] = row /\ lo <= p[2] /\ p[2] < hi
                        THEN PenBackground ELSE inner.buf.buf[p[1]][p[2]]]_vars

(* A blue pen, the cursor sent to column 1 of the second row of a grid     *)
(* three or more wide, and clear_line(Left): columns 0 and 1 of that row   *)
(* are blue spaces and no other cell is.                                   *)
C29_Witness ==
    /\ steps = MaxEraseSteps - 3
    /\ Width >= 3 /\ Height >= 2
    /\ inner.temp.bg = "Blue"
    /\ inner.cursor = Cursor(1, 1)
    /\ \A p \in Positions(inner.buf) :
          (inner.buf.buf[p[1]][p[2]] = PenBackground) <=> (p[1] = 1 /\ p[2] <= 1)

(* C30: clear_screen(Above) sets to the pen's background cell every cell   *)
(* of the rows before the cursor's row and the cells of the cursor's row   *)
(* before the cursor's column, and no other cell; clear_screen(Below) sets *)
(* the cells of the cursor's row from the cursor's column on and every     *)
(* cell of the rows after it, and no other cell; both leave the cursor and *)
(* the rest of the console unchanged; a mode other than Above, Below and   *)
(* All changes nothing.                                                    *)
C30_ClearScreenSpans ==
    [][\A mode \in ClearModes \ {"All"} :
          ClearScreenOf(mode) =>
              LET row == inner.cursor.row
                  col == inner.cursor.col
                  hit(p) == CASE mode = "Above" -> p[1] < row \/ (p[1] = row /\ p[2] < col)
                              [] mode = "Below" -> p[1] > row \/ (p[1] = row /\ p[2] >= col)
                              [] OTHER -> FALSE IN
              /\ inner' = [inner EXCEPT !.buf = inner'.buf]
              /\ inner'.buf.row_offset = inner.buf.row_offset
              /\ \A p \in Positions(inner.buf) :
                    inner'.buf.buf[p[1]][p[2]] =
                        IF hit(p) THEN PenBackground ELSE inner.buf.buf[p[1]][p[2]]]_vars

(* A blue pen, the cursor sent to (1, 1), and clear_screen(Above): row 0   *)
(* and the cell (1, 0) are blue spaces, the cell under the cursor and the  *)
(* cells after it are not.                                                 *)
C30_Witness ==
    /\ steps = MaxEraseSteps - 3
    /\ Width >= 2 /\ Height >= 2
    /\ inner.temp.bg = "Blue"
    /\ inner.cursor = Cursor(1, 1)
    /\ \A p \in Positions(inner.buf) :
          (inner.buf.buf[p[1]][p[2]] = PenBackground) <=> (p[1] = 0 \/ p = << 1, 0 >>)


(* C31: on the cursor's own row clear_screen(Above) and clear_line(Left)   *)
(* erase the same cells, columns 0 through the cursor's column with the    *)
(* cursor's cell included: in every reachable state the two calls leave    *)
(* the cursor's row with the same cells.                                   *)
C31_AboveErasesLikeLeft ==
    inner.cursor.row < Height =>
        clear_screen(inner, "Above").buf.buf[inner.cursor.row]
            = clear_line(inner, "Left").buf.buf[inner.cursor.row]


(* C32: the relative moves clamp and never fail: move_up(n) sets the row   *)
(* to max(row - n, 0), move_down(n) to min(row + n, height - 1),           *)
(* move_forward(n) sets the column to min(col + n, width - 1),             *)
(* move_backward(n) to max(col - n, 0); each returns and leaves the other  *)
(* coordinate, the buffer, the pen and the queue unchanged.                *)
C32_MovesClamp ==
    [][\A n \in Args :
          /\ MoveUpOf(n) =>
                /\ ~panicked'
                /\ inner' = [inner EXCEPT !.cursor.row = saturating_sub(inner.cursor.row, n)]
          /\ MoveDownOf(n) =>
                /\ ~panicked'
                /\ inner' = [inner EXCEPT !.cursor.row = min(inner.cursor.row + n, Height - 1)]
          /\ MoveForwardOf(n) =>
                /\ ~panicked'
                /\ inner' = [inner EXCEPT !.cursor.col = min(inner.cursor.col + n, Width - 1)]
          /\ MoveBackwardOf(n) =>
                /\ ~panicked'
                /\ inner' = [inner EXCEPT !.cursor.col = saturating_sub(inner.cursor.col, n)]]_vars


(* The flag each setting attribute names, and the flags each cancelling    *)
(* attribute names.                                                        *)
OwnFlag ==
    [Reverse |-> "INVERSE", Bold |-> "BOLD", Dim |-> "DIM", Italic |-> "ITALIC",
     Underline |-> "UNDERLINE", Hidden |-> "HIDDEN", Strike |-> "STRIKEOUT"]
CancelledFlags ==
    [CancelReverse |-> {"INVERSE"}, CancelBold |-> {"BOLD"},
     CancelBoldDim |-> {"BOLD", "DIM"}, CancelItalic |-> {"ITALIC"},
     CancelUnderline |-> {"UNDERLINE"}, CancelHidden |-> {"HIDDEN"},
     CancelStrike |-> {"STRIKEOUT"}]

C34_ReportInGrid ==
    [][DeviceStatusOf(6) =>
          \E row \in 1..Height, col \in 1..Width :
              inner'.report = inner.report \o cursor_report(row, col)]_vars


(* C35: the pen's dirty flag is true in every reachable state, the states  *)
(* after the backend's set_cursor_position following a draw included.      *)
C35_PenDirty == inner.temp.dirty

(* C36: in the ratatui backend set_cursor_position(p) with p inside the    *)
(* grid, followed by get_cursor_position, returns p: the same x and the    *)
(* same y.                                                                 *)
C36_CursorRoundTrip ==
    [][\A x \in 0..(MaxWidth + 1), y \in 0..(MaxHeight + 1) :
          BackendSetCursorPositionOf(x, y) /\ x < Width /\ y < Height =>
              backend_get_cursor_position(inner') = [x |-> x, y |-> y]]_vars

(* C37: the backend's draw either stores every content item (x, y, cell)   *)
(* at row y, column x of the buffer or returns CursorPositionOutOfBounds:  *)
(* a draw that returns Ok was given no item with x >= columns or           *)
(* y >= rows.                                                              *)
C37_NoItemDropped ==
    [][\A content \in Contents :
          BackendDrawOf(content) /\ backend_result' = "Ok" =>
              \A k \in 1..Len(content) :
                  content[k].x < Width /\ content[k].y < Height]_vars


(* C38: two cells that agree on character, foreground, background and      *)
(* flags compare equal whatever their dirty flags are.  Stated of the      *)
(* cells the console holds: the cells of the buffer and the pen.           *)
C38_EqualityIgnoresDirty ==
    LET held == {inner.buf.buf[p[1]][p[2]] : p \in Positions(inner.buf)} \cup {inner.temp} IN
    \A a \in held, b \in held : rendered(a) = rendered(b) => cell_eq(a, b)


(* C39: interpolate_8bit_values(a, b, value) is the rounded linear         *)
(* interpolation from a to b: it returns a for value 0 and b for value     *)
(* 255, equals a plus or minus floor((|b - a| * value + 127) / 255), lies  *)
(* between min(a, b) and max(a, b), and its arithmetic stays within 16     *)
(* bits; (0, 255, 128) gives 128, (255, 0, 128) gives 127 and              *)
(* (100, 200, 128) gives 150.                                              *)
C39_Interpolation ==
    blend.called =>
        \A value \in Bytes :
            LET a == blend.a
                b == blend.b
                result == blend.result[value]
                d == IF a > b THEN a - b ELSE b - a
                delta == (d * value + 127) \div 255 IN
            /\ value = 0 => result = a
            /\ value = 255 => result = b
            /\ result = IF a > b THEN a - delta ELSE a + delta
            /\ min(a, b) <= result /\ result <= IF a > b THEN a ELSE b
            /\ interpolate_peak(a, b, value) <= 65535
            /\ (a = 0 /\ b = 255 /\ value = 128) => result = 128
            /\ (a = 255 /\ b = 0 /\ value = 128) => result = 127
            /\ (a = 100 /\ b = 200 /\ value = 128) => result = 150

(* The calls between 255 and 0 have been made: interpolating downwards,    *)
(* value 128 rounds 127.5 away from b and gives 127, value 255 gives 0.    *)
C39_Witness ==
    /\ blend.called
    /\ blend.a = 255 /\ blend.b = 0
    /\ blend.result[128] = 127
    /\ blend.result[255] = 0
=============================================================================
